---------------------------- MODULE Spec2Model ----------------------------
(***************************************************************************)
(* The two text services of src/services/text_generation.py:               *)
(*   MarkovChainGenerator  a second-order Markov chain over word bigrams,  *)
(*                         built once from a corpus, queried by generate;  *)
(*   TextSummarizer        a frequency-scored extractive summarizer.       *)
(*                                                                         *)
(* Text is modelled at the level of characters: a Python str is a sequence *)
(* of one-character strings, a word is the sequence of its characters, and *)
(* the regular expressions of the source are operators over such           *)
(* sequences.  The alphabet is ASCII; the typographic quotes and the dash  *)
(* of the built-in corpus, which are neither word characters nor upper     *)
(* case, are written ' and -.                                              *)
(***************************************************************************)
EXTENDS Integers, Sequences, FiniteSets, TLC

VARIABLES
  corpus,      \* the value _load_corpus returns, as its adjacent literals
  chain,       \* MarkovChainGenerator.chain: bigram -> list of next words
  stopwords,   \* TextSummarizer.stopwords
  gen,         \* the calls of generate in flight, one record per thread
  summ         \* the call of summarize in flight

vars == <<corpus, chain, stopwords, gen, summ>>

---------------------------------------------------------------------------
(* Characters and the str methods the services use.                        *)

UpperLetters ==
  <<"A","B","C","D","E","F","G","H","I","J","K","L","M",
    "N","O","P","Q","R","S","T","U","V","W","X","Y","Z">>

LowerLetters ==
  <<"a","b","c","d","e","f","g","h","i","j","k","l","m",
    "n","o","p","q","r","s","t","u","v","w","x","y","z">>

Digits == {"0","1","2","3","4","5","6","7","8","9"}

Range(s) == {s[i] : i \in DOMAIN s}

UpperSet == Range(UpperLetters)

WordChars == Range(UpperLetters) \cup Range(LowerLetters) \cup Digits \cup {"_"}

\* the lower-case letter of every upper-case letter, and the converse
ToLower == [c \in UpperSet |-> LowerLetters[CHOOSE i \in DOMAIN UpperLetters : UpperLetters[i] = c]]

ToUpper ==
  [c \in Range(LowerLetters) |-> UpperLetters[CHOOSE i \in DOMAIN LowerLetters : LowerLetters[i] = c]]

\* str.isupper of one character
IsUpper(c) == c \in UpperSet

\* \w of the re module
IsWordChar(c) == c \in WordChars

\* \s of the re module on a str pattern, and what str.strip removes: the
\* whitespace of the character set of the model, which is space, \t, \n, \r,
\* \f, \v (0x0b) and the separators 0x1c to 0x1f
WhitespaceChars == {" ", "\t", "\n", "\r", "\f", "", "", "", "", ""}

IsSpace(c) == c \in WhitespaceChars

\* the sentence terminators of the class [.!?]
IsTerminator(c) == c \in {".", "!", "?"}

LowerChar(c) == IF c \in DOMAIN ToLower THEN ToLower[c] ELSE c

UpperChar(c) == IF c \in DOMAIN ToUpper THEN ToUpper[c] ELSE c

\* a sequence given as a function on 1..n, evaluated once to the tuple it is
List(f) == <<>> \o f

\* str.lower
Lower(s) == List([i \in 1..Len(s) |-> LowerChar(s[i])])

\* str.capitalize: the first character upper case, the others lower case
Capitalize(w) ==
  List([i \in 1..Len(w) |-> IF i = 1 THEN UpperChar(w[i]) ELSE LowerChar(w[i])])

\* the n-th smallest member of a finite set of integers
Nth(S, n) == CHOOSE x \in S : Cardinality({y \in S : y <= x}) = n

\* sep.join(items), for a separator given as a str
RECURSIVE Join(_, _)
Join(sep, items) ==
  IF items = <<>> THEN <<>>
  ELSE IF Len(items) = 1 THEN items[1]
  ELSE items[1] \o sep \o Join(sep, Tail(items))

\* re.findall(r"\b\w+\b", s): the maximal runs of word characters, in order.
\* A match starts where a word character follows a non-word character or the
\* start of s, and ends before the next non-word character or the end of s.
FindallWords(s) ==
  LET n == Len(s)
      starts == {i \in 1..n : IsWordChar(s[i]) /\ (i = 1 \/ ~IsWordChar(s[i - 1]))}
      EndOf(b) == CHOOSE e \in b..n : /\ \A m \in b..e : IsWordChar(s[m])
                                      /\ (e = n \/ ~IsWordChar(s[e + 1]))
  IN List([j \in 1..Cardinality(starts) |->
             LET b == Nth(starts, j) IN SubSeq(s, b, EndOf(b))])

---------------------------------------------------------------------------
(* MarkovChainGenerator: construction.                                     *)

\* _load_corpus: the adjacent string literals of the return statement, in
\* order.  Python concatenates them; every literal ends in a space.
LoadCorpus ==
  <<
  (* 58: Alice was beginning to get very tired of sitting by her sister on the bank,  *)
  <<"A","l","i","c","e"," ","w","a","s"," ","b","e","g","i","n","n","i","n","g"," ","t","o"," ","g","e","t"," ","v","e","r","y"," ","t","i","r","e","d"," ","o","f"," ","s","i","t","t","i","n","g"," ","b","y"," ","h","e","r"," ","s","i","s","t","e","r"," ","o","n"," ","t","h","e"," ","b","a","n","k",","," ">>,
  (* 59: and of having nothing to do: once or twice she had peeped into the book her  *)
  <<"a","n","d"," ","o","f"," ","h","a","v","i","n","g"," ","n","o","t","h","i","n","g"," ","t","o"," ","d","o",":"," ","o","n","c","e"," ","o","r"," ","t","w","i","c","e"," ","s","h","e"," ","h","a","d"," ","p","e","e","p","e","d"," ","i","n","t","o"," ","t","h","e"," ","b","o","o","k"," ","h","e","r"," ">>,
  (* 60: sister was reading, but it had no pictures or conversations in it, 'and what  *)
  <<"s","i","s","t","e","r"," ","w","a","s"," ","r","e","a","d","i","n","g",","," ","b","u","t"," ","i","t"," ","h","a","d"," ","n","o"," ","p","i","c","t","u","r","e","s"," ","o","r"," ","c","o","n","v","e","r","s","a","t","i","o","n","s"," ","i","n"," ","i","t",","," ","'","a","n","d"," ","w","h","a","t"," ">>,
  (* 61: is the use of a book,' thought Alice 'without pictures or conversation?'  *)
  <<"i","s"," ","t","h","e"," ","u","s","e"," ","o","f"," ","a"," ","b","o","o","k",",","'"," ","t","h","o","u","g","h","t"," ","A","l","i","c","e"," ","'","w","i","t","h","o","u","t"," ","p","i","c","t","u","r","e","s"," ","o","r"," ","c","o","n","v","e","r","s","a","t","i","o","n","?","'"," ">>,
  (* 62: So she was considering in her own mind (as well as she could, for the hot day  *)
  <<"S","o"," ","s","h","e"," ","w","a","s"," ","c","o","n","s","i","d","e","r","i","n","g"," ","i","n"," ","h","e","r"," ","o","w","n"," ","m","i","n","d"," ","(","a","s"," ","w","e","l","l"," ","a","s"," ","s","h","e"," ","c","o","u","l","d",","," ","f","o","r"," ","t","h","e"," ","h","o","t"," ","d","a","y"," ">>,
  (* 63: made her feel very sleepy and stupid), whether the pleasure of making a  *)
  <<"m","a","d","e"," ","h","e","r"," ","f","e","e","l"," ","v","e","r","y"," ","s","l","e","e","p","y"," ","a","n","d"," ","s","t","u","p","i","d",")",","," ","w","h","e","t","h","e","r"," ","t","h","e"," ","p","l","e","a","s","u","r","e"," ","o","f"," ","m","a","k","i","n","g"," ","a"," ">>,
  (* 64: daisy-chain would be worth the trouble of getting up and picking the daisies,  *)
  <<"d","a","i","s","y","-","c","h","a","i","n"," ","w","o","u","l","d"," ","b","e"," ","w","o","r","t","h"," ","t","h","e"," ","t","r","o","u","b","l","e"," ","o","f"," ","g","e","t","t","i","n","g"," ","u","p"," ","a","n","d"," ","p","i","c","k","i","n","g"," ","t","h","e"," ","d","a","i","s","i","e","s",","," ">>,
  (* 65: when suddenly a White Rabbit with pink eyes ran close by her.  *)
  <<"w","h","e","n"," ","s","u","d","d","e","n","l","y"," ","a"," ","W","h","i","t","e"," ","R","a","b","b","i","t"," ","w","i","t","h"," ","p","i","n","k"," ","e","y","e","s"," ","r","a","n"," ","c","l","o","s","e"," ","b","y"," ","h","e","r","."," ">>,
  (* 66: There was nothing so very remarkable in that; nor did Alice think it so  *)
  <<"T","h","e","r","e"," ","w","a","s"," ","n","o","t","h","i","n","g"," ","s","o"," ","v","e","r","y"," ","r","e","m","a","r","k","a","b","l","e"," ","i","n"," ","t","h","a","t",";"," ","n","o","r"," ","d","i","d"," ","A","l","i","c","e"," ","t","h","i","n","k"," ","i","t"," ","s","o"," ">>,
  (* 67: very much out of the way to hear the Rabbit say to itself, 'Oh dear! Oh  *)
  <<"v","e","r","y"," ","m","u","c","h"," ","o","u","t"," ","o","f"," ","t","h","e"," ","w","a","y"," ","t","o"," ","h","e","a","r"," ","t","h","e"," ","R","a","b","b","i","t"," ","s","a","y"," ","t","o"," ","i","t","s","e","l","f",","," ","'","O","h"," ","d","e","a","r","!"," ","O","h"," ">>,
  (* 68: dear! I shall be late!' (when she thought it over afterwards, it occurred to  *)
  <<"d","e","a","r","!"," ","I"," ","s","h","a","l","l"," ","b","e"," ","l","a","t","e","!","'"," ","(","w","h","e","n"," ","s","h","e"," ","t","h","o","u","g","h","t"," ","i","t"," ","o","v","e","r"," ","a","f","t","e","r","w","a","r","d","s",","," ","i","t"," ","o","c","c","u","r","r","e","d"," ","t","o"," ">>,
  (* 69: her that she ought to have wondered at this, but at the time it all seemed  *)
  <<"h","e","r"," ","t","h","a","t"," ","s","h","e"," ","o","u","g","h","t"," ","t","o"," ","h","a","v","e"," ","w","o","n","d","e","r","e","d"," ","a","t"," ","t","h","i","s",","," ","b","u","t"," ","a","t"," ","t","h","e"," ","t","i","m","e"," ","i","t"," ","a","l","l"," ","s","e","e","m","e","d"," ">>,
  (* 70: quite natural); but when the Rabbit actually took a watch out of its  *)
  <<"q","u","i","t","e"," ","n","a","t","u","r","a","l",")",";"," ","b","u","t"," ","w","h","e","n"," ","t","h","e"," ","R","a","b","b","i","t"," ","a","c","t","u","a","l","l","y"," ","t","o","o","k"," ","a"," ","w","a","t","c","h"," ","o","u","t"," ","o","f"," ","i","t","s"," ">>,
  (* 71: waistcoat-pocket, and looked at it, and then hurried on, Alice started to her  *)
  <<"w","a","i","s","t","c","o","a","t","-","p","o","c","k","e","t",","," ","a","n","d"," ","l","o","o","k","e","d"," ","a","t"," ","i","t",","," ","a","n","d"," ","t","h","e","n"," ","h","u","r","r","i","e","d"," ","o","n",","," ","A","l","i","c","e"," ","s","t","a","r","t","e","d"," ","t","o"," ","h","e","r"," ">>,
  (* 72: feet, for it flashed across her mind that she had never before seen a rabbit  *)
  <<"f","e","e","t",","," ","f","o","r"," ","i","t"," ","f","l","a","s","h","e","d"," ","a","c","r","o","s","s"," ","h","e","r"," ","m","i","n","d"," ","t","h","a","t"," ","s","h","e"," ","h","a","d"," ","n","e","v","e","r"," ","b","e","f","o","r","e"," ","s","e","e","n"," ","a"," ","r","a","b","b","i","t"," ">>,
  (* 73: with either a waistcoat-pocket, or a watch to take out of it, and burning with  *)
  <<"w","i","t","h"," ","e","i","t","h","e","r"," ","a"," ","w","a","i","s","t","c","o","a","t","-","p","o","c","k","e","t",","," ","o","r"," ","a"," ","w","a","t","c","h"," ","t","o"," ","t","a","k","e"," ","o","u","t"," ","o","f"," ","i","t",","," ","a","n","d"," ","b","u","r","n","i","n","g"," ","w","i","t","h"," ">>,
  (* 74: curiosity, she ran across the field after it, and fortunately was just in  *)
  <<"c","u","r","i","o","s","i","t","y",","," ","s","h","e"," ","r","a","n"," ","a","c","r","o","s","s"," ","t","h","e"," ","f","i","e","l","d"," ","a","f","t","e","r"," ","i","t",","," ","a","n","d"," ","f","o","r","t","u","n","a","t","e","l","y"," ","w","a","s"," ","j","u","s","t"," ","i","n"," ">>,
  (* 75: time to see it pop down a large rabbit-hole under the hedge.  *)
  <<"t","i","m","e"," ","t","o"," ","s","e","e"," ","i","t"," ","p","o","p"," ","d","o","w","n"," ","a"," ","l","a","r","g","e"," ","r","a","b","b","i","t","-","h","o","l","e"," ","u","n","d","e","r"," ","t","h","e"," ","h","e","d","g","e","."," ">>,
  (* 76: In another moment down went Alice after it, never once considering how in the  *)
  <<"I","n"," ","a","n","o","t","h","e","r"," ","m","o","m","e","n","t"," ","d","o","w","n"," ","w","e","n","t"," ","A","l","i","c","e"," ","a","f","t","e","r"," ","i","t",","," ","n","e","v","e","r"," ","o","n","c","e"," ","c","o","n","s","i","d","e","r","i","n","g"," ","h","o","w"," ","i","n"," ","t","h","e"," ">>,
  (* 77: world she was to get out again. The rabbit-hole went straight on like a  *)
  <<"w","o","r","l","d"," ","s","h","e"," ","w","a","s"," ","t","o"," ","g","e","t"," ","o","u","t"," ","a","g","a","i","n","."," ","T","h","e"," ","r","a","b","b","i","t","-","h","o","l","e"," ","w","e","n","t"," ","s","t","r","a","i","g","h","t"," ","o","n"," ","l","i","k","e"," ","a"," ">>,
  (* 78: tunnel for some way, and then dipped suddenly down, so suddenly that Alice had  *)
  <<"t","u","n","n","e","l"," ","f","o","r"," ","s","o","m","e"," ","w","a","y",","," ","a","n","d"," ","t","h","e","n"," ","d","i","p","p","e","d"," ","s","u","d","d","e","n","l","y"," ","d","o","w","n",","," ","s","o"," ","s","u","d","d","e","n","l","y"," ","t","h","a","t"," ","A","l","i","c","e"," ","h","a","d"," ">>,
  (* 79: not a moment to think about stopping herself before she found herself falling  *)
  <<"n","o","t"," ","a"," ","m","o","m","e","n","t"," ","t","o"," ","t","h","i","n","k"," ","a","b","o","u","t"," ","s","t","o","p","p","i","n","g"," ","h","e","r","s","e","l","f"," ","b","e","f","o","r","e"," ","s","h","e"," ","f","o","u","n","d"," ","h","e","r","s","e","l","f"," ","f","a","l","l","i","n","g"," ">>,
  (* 80: down a very deep well. Either the well was very deep, or she fell very  *)
  <<"d","o","w","n"," ","a"," ","v","e","r","y"," ","d","e","e","p"," ","w","e","l","l","."," ","E","i","t","h","e","r"," ","t","h","e"," ","w","e","l","l"," ","w","a","s"," ","v","e","r","y"," ","d","e","e","p",","," ","o","r"," ","s","h","e"," ","f","e","l","l"," ","v","e","r","y"," ">>,
  (* 81: slowly, for she had plenty of time as she went down to look about her and to  *)
  <<"s","l","o","w","l","y",","," ","f","o","r"," ","s","h","e"," ","h","a","d"," ","p","l","e","n","t","y"," ","o","f"," ","t","i","m","e"," ","a","s"," ","s","h","e"," ","w","e","n","t"," ","d","o","w","n"," ","t","o"," ","l","o","o","k"," ","a","b","o","u","t"," ","h","e","r"," ","a","n","d"," ","t","o"," ">>,
  (* 82: wonder what was going to happen next. First, she tried to look down and make  *)
  <<"w","o","n","d","e","r"," ","w","h","a","t"," ","w","a","s"," ","g","o","i","n","g"," ","t","o"," ","h","a","p","p","e","n"," ","n","e","x","t","."," ","F","i","r","s","t",","," ","s","h","e"," ","t","r","i","e","d"," ","t","o"," ","l","o","o","k"," ","d","o","w","n"," ","a","n","d"," ","m","a","k","e"," ">>,
  (* 83: out what she was coming to, but it was too dark to see anything; then she  *)
  <<"o","u","t"," ","w","h","a","t"," ","s","h","e"," ","w","a","s"," ","c","o","m","i","n","g"," ","t","o",","," ","b","u","t"," ","i","t"," ","w","a","s"," ","t","o","o"," ","d","a","r","k"," ","t","o"," ","s","e","e"," ","a","n","y","t","h","i","n","g",";"," ","t","h","e","n"," ","s","h","e"," ">>,
  (* 84: looked at the sides of the well, and noticed that they were filled with  *)
  <<"l","o","o","k","e","d"," ","a","t"," ","t","h","e"," ","s","i","d","e","s"," ","o","f"," ","t","h","e"," ","w","e","l","l",","," ","a","n","d"," ","n","o","t","i","c","e","d"," ","t","h","a","t"," ","t","h","e","y"," ","w","e","r","e"," ","f","i","l","l","e","d"," ","w","i","t","h"," ">>,
  (* 85: cupboards and book-shelves; here and there she saw maps and pictures hung  *)
  <<"c","u","p","b","o","a","r","d","s"," ","a","n","d"," ","b","o","o","k","-","s","h","e","l","v","e","s",";"," ","h","e","r","e"," ","a","n","d"," ","t","h","e","r","e"," ","s","h","e"," ","s","a","w"," ","m","a","p","s"," ","a","n","d"," ","p","i","c","t","u","r","e","s"," ","h","u","n","g"," ">>,
  (* 86: upon pegs. She took down a jar from one of the shelves as she passed; it was  *)
  <<"u","p","o","n"," ","p","e","g","s","."," ","S","h","e"," ","t","o","o","k"," ","d","o","w","n"," ","a"," ","j","a","r"," ","f","r","o","m"," ","o","n","e"," ","o","f"," ","t","h","e"," ","s","h","e","l","v","e","s"," ","a","s"," ","s","h","e"," ","p","a","s","s","e","d",";"," ","i","t"," ","w","a","s"," ">>,
  (* 87: labelled 'ORANGE MARMALADE', but to her great disappointment it was empty: she  *)
  <<"l","a","b","e","l","l","e","d"," ","'","O","R","A","N","G","E"," ","M","A","R","M","A","L","A","D","E","'",","," ","b","u","t"," ","t","o"," ","h","e","r"," ","g","r","e","a","t"," ","d","i","s","a","p","p","o","i","n","t","m","e","n","t"," ","i","t"," ","w","a","s"," ","e","m","p","t","y",":"," ","s","h","e"," ">>,
  (* 88: did not like to drop the jar for fear of killing somebody, so managed to put  *)
  <<"d","i","d"," ","n","o","t"," ","l","i","k","e"," ","t","o"," ","d","r","o","p"," ","t","h","e"," ","j","a","r"," ","f","o","r"," ","f","e","a","r"," ","o","f"," ","k","i","l","l","i","n","g"," ","s","o","m","e","b","o","d","y",","," ","s","o"," ","m","a","n","a","g","e","d"," ","t","o"," ","p","u","t"," ">>,
  (* 89: it into one of the cupboards as she fell past it. 'Well!' thought Alice to  *)
  <<"i","t"," ","i","n","t","o"," ","o","n","e"," ","o","f"," ","t","h","e"," ","c","u","p","b","o","a","r","d","s"," ","a","s"," ","s","h","e"," ","f","e","l","l"," ","p","a","s","t"," ","i","t","."," ","'","W","e","l","l","!","'"," ","t","h","o","u","g","h","t"," ","A","l","i","c","e"," ","t","o"," ">>,
  (* 90: herself, 'after such a fall as this, I shall think nothing of tumbling down  *)
  <<"h","e","r","s","e","l","f",","," ","'","a","f","t","e","r"," ","s","u","c","h"," ","a"," ","f","a","l","l"," ","a","s"," ","t","h","i","s",","," ","I"," ","s","h","a","l","l"," ","t","h","i","n","k"," ","n","o","t","h","i","n","g"," ","o","f"," ","t","u","m","b","l","i","n","g"," ","d","o","w","n"," ">>,
  (* 91: stairs! How brave they'll all think me at home! Why, I wouldn't say anything  *)
  <<"s","t","a","i","r","s","!"," ","H","o","w"," ","b","r","a","v","e"," ","t","h","e","y","'","l","l"," ","a","l","l"," ","t","h","i","n","k"," ","m","e"," ","a","t"," ","h","o","m","e","!"," ","W","h","y",","," ","I"," ","w","o","u","l","d","n","'","t"," ","s","a","y"," ","a","n","y","t","h","i","n","g"," ">>,
  (* 92: about it, even if I fell off the top of the house!' (Which was very likely true.)  *)
  <<"a","b","o","u","t"," ","i","t",","," ","e","v","e","n"," ","i","f"," ","I"," ","f","e","l","l"," ","o","f","f"," ","t","h","e"," ","t","o","p"," ","o","f"," ","t","h","e"," ","h","o","u","s","e","!","'"," ","(","W","h","i","c","h"," ","w","a","s"," ","v","e","r","y"," ","l","i","k","e","l","y"," ","t","r","u","e",".",")"," ">>,
  (* 93: Down, down, down. Would the fall never come to an end! 'I wonder how many  *)
  <<"D","o","w","n",","," ","d","o","w","n",","," ","d","o","w","n","."," ","W","o","u","l","d"," ","t","h","e"," ","f","a","l","l"," ","n","e","v","e","r"," ","c","o","m","e"," ","t","o"," ","a","n"," ","e","n","d","!"," ","'","I"," ","w","o","n","d","e","r"," ","h","o","w"," ","m","a","n","y"," ">>,
  (* 94: miles I've fallen by this time?' she said aloud. 'I must be getting somewhere  *)
  <<"m","i","l","e","s"," ","I","'","v","e"," ","f","a","l","l","e","n"," ","b","y"," ","t","h","i","s"," ","t","i","m","e","?","'"," ","s","h","e"," ","s","a","i","d"," ","a","l","o","u","d","."," ","'","I"," ","m","u","s","t"," ","b","e"," ","g","e","t","t","i","n","g"," ","s","o","m","e","w","h","e","r","e"," ">>,
  (* 95: near the centre of the earth. Let me see: that would be four thousand miles  *)
  <<"n","e","a","r"," ","t","h","e"," ","c","e","n","t","r","e"," ","o","f"," ","t","h","e"," ","e","a","r","t","h","."," ","L","e","t"," ","m","e"," ","s","e","e",":"," ","t","h","a","t"," ","w","o","u","l","d"," ","b","e"," ","f","o","u","r"," ","t","h","o","u","s","a","n","d"," ","m","i","l","e","s"," ">>,
  (* 96: down, I think-' (for, you see, Alice had learnt several things of this sort in  *)
  <<"d","o","w","n",","," ","I"," ","t","h","i","n","k","-","'"," ","(","f","o","r",","," ","y","o","u"," ","s","e","e",","," ","A","l","i","c","e"," ","h","a","d"," ","l","e","a","r","n","t"," ","s","e","v","e","r","a","l"," ","t","h","i","n","g","s"," ","o","f"," ","t","h","i","s"," ","s","o","r","t"," ","i","n"," ">>,
  (* 97: her lessons in the schoolroom, and though this was not a VERY good opportunity  *)
  <<"h","e","r"," ","l","e","s","s","o","n","s"," ","i","n"," ","t","h","e"," ","s","c","h","o","o","l","r","o","o","m",","," ","a","n","d"," ","t","h","o","u","g","h"," ","t","h","i","s"," ","w","a","s"," ","n","o","t"," ","a"," ","V","E","R","Y"," ","g","o","o","d"," ","o","p","p","o","r","t","u","n","i","t","y"," ">>,
  (* 98: for showing off her knowledge, as there was no one to listen to her, still it  *)
  <<"f","o","r"," ","s","h","o","w","i","n","g"," ","o","f","f"," ","h","e","r"," ","k","n","o","w","l","e","d","g","e",","," ","a","s"," ","t","h","e","r","e"," ","w","a","s"," ","n","o"," ","o","n","e"," ","t","o"," ","l","i","s","t","e","n"," ","t","o"," ","h","e","r",","," ","s","t","i","l","l"," ","i","t"," ">>,
  (* 99: was good practice to say it over) '-yes, that's about the right distance-but  *)
  <<"w","a","s"," ","g","o","o","d"," ","p","r","a","c","t","i","c","e"," ","t","o"," ","s","a","y"," ","i","t"," ","o","v","e","r",")"," ","'","-","y","e","s",","," ","t","h","a","t","'","s"," ","a","b","o","u","t"," ","t","h","e"," ","r","i","g","h","t"," ","d","i","s","t","a","n","c","e","-","b","u","t"," ">>,
  (* 100: then I wonder what Latitude or Longitude I've got to?' (Alice had no idea what  *)
  <<"t","h","e","n"," ","I"," ","w","o","n","d","e","r"," ","w","h","a","t"," ","L","a","t","i","t","u","d","e"," ","o","r"," ","L","o","n","g","i","t","u","d","e"," ","I","'","v","e"," ","g","o","t"," ","t","o","?","'"," ","(","A","l","i","c","e"," ","h","a","d"," ","n","o"," ","i","d","e","a"," ","w","h","a","t"," ">>,
  (* 101: Latitude was, or Longitude either, but thought they were nice grand words to  *)
  <<"L","a","t","i","t","u","d","e"," ","w","a","s",","," ","o","r"," ","L","o","n","g","i","t","u","d","e"," ","e","i","t","h","e","r",","," ","b","u","t"," ","t","h","o","u","g","h","t"," ","t","h","e","y"," ","w","e","r","e"," ","n","i","c","e"," ","g","r","a","n","d"," ","w","o","r","d","s"," ","t","o"," ">>,
  (* 102: say.)  *)
  <<"s","a","y",".",")"," ">>
  >>

\* _build_chain, lines 42-43: the lower-cased word tokens of the corpus.  No
\* token spans two literals (each literal ends in a space), so the tokens of
\* the concatenation are the tokens of the literals, in order.
RECURSIVE CorpusWordsFrom(_, _, _)
CorpusWordsFrom(literals, i, acc) ==
  IF i > Len(literals) THEN acc
  ELSE CorpusWordsFrom(literals, i + 1, acc \o FindallWords(Lower(literals[i])))

CorpusWords(literals) == CorpusWordsFrom(literals, 1, <<>>)

\* BuildChain with the loop of line 45 one iteration short
\* (range(len(words) - 3)): the last key of the corpus is never entered
BuildChainShort(words) ==
  LET n == Len(words)
      KeyAt(i) == <<words[i], words[i + 1]>>
      Positions(k) == {i \in 1..(n - 3) : KeyAt(i) = k}
  IN [k \in {KeyAt(i) : i \in 1..(n - 3)} |->
        List([j \in 1..Cardinality(Positions(k)) |-> words[Nth(Positions(k), j) + 2]])]

\* _build_chain, lines 45-47: words[i + 2] is appended to the list of the key
\* (words[i], words[i + 1]) for i = 0 .. len(words) - 3 in ascending order, so
\* a key's list holds the followers of its occurrences in corpus order
\* (positions here are 1-based).
BuildChain(words) ==
  LET n == Len(words)
      KeyAt(i) == <<words[i], words[i + 1]>>
      Positions(k) == {i \in 1..(n - 2) : KeyAt(i) = k}
  IN [k \in {KeyAt(i) : i \in 1..(n - 2)} |->
        List([j \in 1..Cardinality(Positions(k)) |-> words[Nth(Positions(k), j) + 2]])]

---------------------------------------------------------------------------
(* Bounds of the model and the inputs drawn within them.                   *)

MaxCorpusWords == 4     \* words of a small training corpus
MaxPromptLen == 4       \* characters of an enumerated prompt
MaxLength == 4          \* max_length ranges over 1..MaxLength
MaxItems == 4           \* items (a letter and what ends it) of an enumerated text
MaxSentences == 2       \* max_sentences ranges over 1..MaxSentences

SeqsUpTo(S, n) == UNION {[1..k -> S] : k \in 0..n}

CorpusVocabulary == {<<"a">>, <<"b">>}

\* a training corpus of at most MaxCorpusWords words, as one literal
SmallCorpora == {<<Join(<<" ">>, ws)>> : ws \in SeqsUpTo(CorpusVocabulary, MaxCorpusWords)}

PromptChars == {"a", "B", " "}

\* prompts of more tokens than the enumerated ones hold: "a a a", "B a a b",
\* "a b a", "b b a a", "A a b a a", "B a a"
LongPrompts ==
  { <<"a"," ","a"," ","a">>, <<"B"," ","a"," ","a"," ","b">>, <<"a"," ","b"," ","a">>,
    <<"b"," ","b"," ","a"," ","a">>, <<"A"," ","a"," ","b"," ","a"," ","a">>,
    <<"B"," ","a"," ","a">> }

PromptInputs == SeqsUpTo(PromptChars, MaxPromptLen) \cup LongPrompts

---------------------------------------------------------------------------
(* MarkovChainGenerator.generate.                                          *)

\* the state of a call of generate that has read its arguments
NewCall(prompt, max_length) ==
  [pc |-> "seed", prompt |-> prompt, max_length |-> max_length,
   generated_words |-> <<>>, last |-> "none", result |-> <<>>, error |-> "none"]

\* the threads that may call generate on the shared instance of line 368
Threads == {1, 2}

\* a thread that is not in generate
NoCall ==
  [pc |-> "idle", prompt |-> <<>>, max_length |-> 1,
   generated_words |-> <<>>, last |-> "none", result |-> <<>>, error |-> "none"]

NoCalls == [t \in Threads |-> NoCall]

\* list(seed) for a key of the table
KeyWords(k) == <<k[1], k[2]>>

\* SeedSelection with the follower left out of a one-word start
\* (generated_words = [first] at line 139)
SeedSelectionFirstOnly(ch, prompt_words) ==
  LET n == Len(prompt_words) IN
  IF n >= 2
  THEN IF <<prompt_words[n - 1], prompt_words[n]>> \in DOMAIN ch
       THEN {prompt_words}
       ELSE {KeyWords(k) : k \in DOMAIN ch}
  ELSE IF n = 1
  THEN LET first == prompt_words[n]
           candidates == {k \in DOMAIN ch : k[1] = first}
       IN IF candidates # {}
          THEN {<<first>>}
          ELSE {KeyWords(k) : k \in DOMAIN ch}
  ELSE {KeyWords(k) : k \in DOMAIN ch}

\* SeedSelection starting from the seed alone when the seed is known
\* (generated_words = list(seed) at line 127)
SeedSelectionSeedOnly(ch, prompt_words) ==
  LET n == Len(prompt_words) IN
  IF n >= 2
  THEN IF <<prompt_words[n - 1], prompt_words[n]>> \in DOMAIN ch
       THEN {<<prompt_words[n - 1], prompt_words[n]>>}
       ELSE {KeyWords(k) : k \in DOMAIN ch}
  ELSE IF n = 1
  THEN LET first == prompt_words[n]
           candidates == {k \in DOMAIN ch : k[1] = first}
       IN IF candidates # {}
          THEN {<<first, k[2]>> : k \in candidates}
          ELSE {KeyWords(k) : k \in DOMAIN ch}
  ELSE {KeyWords(k) : k \in DOMAIN ch}

\* SeedSelection keeping the prompt when its seed is unknown
\* (line 131 left out) and the table is not empty
SeedSelectionKeepsPrompt(ch, prompt_words) ==
  LET n == Len(prompt_words) IN
  IF n >= 2
  THEN IF DOMAIN ch # {} THEN {prompt_words} ELSE {}
  ELSE IF n = 1
  THEN LET first == prompt_words[n]
           candidates == {k \in DOMAIN ch : k[1] = first}
       IN IF candidates # {}
          THEN {<<first, k[2]>> : k \in candidates}
          ELSE {KeyWords(k) : k \in DOMAIN ch}
  ELSE {KeyWords(k) : k \in DOMAIN ch}

\* lines 125-146: the values generated_words can take when the loop is entered,
\* one for each outcome of random.choice; none when random.choice is given an
\* empty list (it raises IndexError)
SeedSelection(ch, prompt_words) ==
  LET n == Len(prompt_words) IN
  IF n >= 2
  THEN IF <<prompt_words[n - 1], prompt_words[n]>> \in DOMAIN ch
       THEN {prompt_words}
       ELSE {KeyWords(k) : k \in DOMAIN ch}
  ELSE IF n = 1
  THEN LET first == prompt_words[n]
           candidates == {k \in DOMAIN ch : k[1] = first}
       IN IF candidates # {}
          THEN {<<first, k[2]>> : k \in candidates}
          ELSE {KeyWords(k) : k \in DOMAIN ch}
  ELSE {KeyWords(k) : k \in DOMAIN ch}

\* line 151, self.chain.get(key): the list of the key, or None; None and the
\* empty list are both false at line 152 and are both written <<>>
ChainGet(ch, key) == IF key \in DOMAIN ch THEN ch[key] ELSE <<>>

\* the table after self.chain[key], which inserts an empty list for a key
\* a defaultdict does not hold
ChainAfterSubscript(ch, key) == IF key \in DOMAIN ch THEN ch ELSE ch @@ (key :> <<>>)

\* line 151: what dict.get leaves of the table it reads (it inserts nothing,
\* also in a defaultdict)
ChainAfterGet(ch, key) == ch

Raise(t, exception) == gen' = [gen EXCEPT ![t].pc = "raised", ![t].error = exception]

\* lines 121-146: tokenize the prompt and choose the starting words
SeedSelect(t) ==
  /\ gen[t].pc = "seed"
  /\ LET prompt_words == FindallWords(Lower(gen[t].prompt))
         starts == SeedSelection(chain, prompt_words)
     IN IF starts = {}
        THEN Raise(t, "IndexError")
        ELSE \E g \in starts :
               gen' = [gen EXCEPT ![t].pc = "loop", ![t].generated_words = g]
  /\ UNCHANGED <<corpus, chain, stopwords, summ>>

\* lines 149-158: one iteration of the while loop
ExtendStep(t) ==
  /\ gen[t].pc = "loop"
  /\ Len(gen[t].generated_words) < gen[t].max_length
  /\ LET words == gen[t].generated_words
         n == Len(words)
     IN IF n < 2
        THEN \* generated_words[-2] raises
             /\ Raise(t, "IndexError")
             /\ UNCHANGED chain
        ELSE LET key == <<words[n - 1], words[n]>>
                 followers == ChainGet(chain, key)
             IN /\ chain' = ChainAfterGet(chain, key)
                /\ IF followers = <<>>
                   THEN IF DOMAIN chain' = {}
                        THEN Raise(t, "IndexError")
                        ELSE \E seed \in DOMAIN chain' :
                               gen' = [gen EXCEPT ![t].generated_words = words \o KeyWords(seed),
                                                  ![t].last = "deadend"]
                   ELSE \E next_word \in Range(followers) :
                          gen' = [gen EXCEPT ![t].generated_words = Append(words, next_word),
                                             ![t].last = "follow"]
  /\ UNCHANGED <<corpus, stopwords, summ>>

\* lines 160-163: the loop has ended; capitalise the first word, join, return
Finish(t) ==
  /\ gen[t].pc = "loop"
  /\ Len(gen[t].generated_words) >= gen[t].max_length
  /\ LET words == gen[t].generated_words
         prompt == gen[t].prompt
         capital == prompt # <<>> /\ IsUpper(prompt[1])
     IN IF capital /\ words = <<>>
        THEN Raise(t, "IndexError")
        ELSE gen' = [gen EXCEPT
                 ![t].pc = "done",
                 ![t].result = Join(<<" ">>,
                    IF capital THEN [words EXCEPT ![1] = Capitalize(words[1])] ELSE words)]
  /\ UNCHANGED <<corpus, chain, stopwords, summ>>

---------------------------------------------------------------------------
(* TextSummarizer.                                                         *)

\* _default_stopwords
DefaultStopwords ==
  {
  <<"a">>, <<"a","b","o","u","t">>, <<"a","b","o","v","e">>, <<"a","f","t","e","r">>,
  <<"a","g","a","i","n">>, <<"a","g","a","i","n","s","t">>, <<"a","l","l">>, <<"a","m">>,
  <<"a","n">>, <<"a","n","d">>, <<"a","n","y">>, <<"a","r","e">>,
  <<"a","s">>, <<"a","t">>, <<"b","e">>, <<"b","e","c","a","u","s","e">>,
  <<"b","e","e","n">>, <<"b","e","f","o","r","e">>, <<"b","e","i","n","g">>, <<"b","e","l","o","w">>,
  <<"b","e","t","w","e","e","n">>, <<"b","o","t","h">>, <<"b","u","t">>, <<"b","y">>,
  <<"c","o","u","l","d">>, <<"d","i","d">>, <<"d","o">>, <<"d","o","e","s">>,
  <<"d","o","i","n","g">>, <<"d","o","w","n">>, <<"d","u","r","i","n","g">>, <<"e","a","c","h">>,
  <<"f","e","w">>, <<"f","o","r">>, <<"f","r","o","m">>, <<"f","u","r","t","h","e","r">>,
  <<"h","a","d">>, <<"h","a","s">>, <<"h","a","v","e">>, <<"h","a","v","i","n","g">>,
  <<"h","e">>, <<"h","e","r">>, <<"h","e","r","e">>, <<"h","e","r","s">>,
  <<"h","e","r","s","e","l","f">>, <<"h","i","m">>, <<"h","i","m","s","e","l","f">>, <<"h","i","s">>,
  <<"h","o","w">>, <<"i">>, <<"i","f">>, <<"i","n">>,
  <<"i","n","t","o">>, <<"i","s">>, <<"i","t">>, <<"i","t","s">>,
  <<"i","t","s","e","l","f">>, <<"j","u","s","t">>, <<"m","e">>, <<"m","o","r","e">>,
  <<"m","o","s","t">>, <<"m","y">>, <<"m","y","s","e","l","f">>, <<"n","o">>,
  <<"n","o","r">>, <<"n","o","t">>, <<"n","o","w">>, <<"o","f">>,
  <<"o","f","f">>, <<"o","n">>, <<"o","n","c","e">>, <<"o","n","l","y">>,
  <<"o","r">>, <<"o","t","h","e","r">>, <<"o","u","r">>, <<"o","u","r","s">>,
  <<"o","u","r","s","e","l","v","e","s">>, <<"o","u","t">>, <<"o","v","e","r">>, <<"o","w","n">>,
  <<"s","a","m","e">>, <<"s","h","e">>, <<"s","h","o","u","l","d">>, <<"s","o">>,
  <<"s","o","m","e">>, <<"s","u","c","h">>, <<"t","h","a","n">>, <<"t","h","a","t">>,
  <<"t","h","e">>, <<"t","h","e","i","r">>, <<"t","h","e","i","r","s">>, <<"t","h","e","m">>,
  <<"t","h","e","m","s","e","l","v","e","s">>, <<"t","h","e","n">>, <<"t","h","e","r","e">>, <<"t","h","e","s","e">>,
  <<"t","h","e","y">>, <<"t","h","i","s">>, <<"t","h","o","s","e">>, <<"t","h","r","o","u","g","h">>,
  <<"t","o">>, <<"t","o","o">>, <<"u","n","d","e","r">>, <<"u","n","t","i","l">>,
  <<"u","p">>, <<"v","e","r","y">>, <<"w","a","s">>, <<"w","e">>,
  <<"w","e","r","e">>, <<"w","h","a","t">>, <<"w","h","e","n">>, <<"w","h","e","r","e">>,
  <<"w","h","i","c","h">>, <<"w","h","i","l","e">>, <<"w","h","o">>, <<"w","h","o","m">>,
  <<"w","h","y">>, <<"w","i","l","l">>, <<"w","i","t","h">>, <<"y","o","u">>,
  <<"y","o","u","r">>, <<"y","o","u","r","s">>, <<"y","o","u","r","s","e","l","f">>, <<"y","o","u","r","s","e","l","v","e","s">>
  }

Min(S) == CHOOSE x \in S : \A y \in S : x <= y

Max(S) == CHOOSE x \in S : \A y \in S : y <= x

\* str.strip
Strip(s) ==
  LET kept == {i \in 1..Len(s) : ~IsSpace(s[i])}
  IN IF kept = {} THEN <<>> ELSE SubSeq(s, Min(kept), Max(kept))

\* re.split(r"(?<=[.!?])\s+", s): a separator is a maximal run of whitespace
\* that starts right after a sentence terminator; the pieces between the
\* separators are returned, in order
SplitSentences(s) ==
  LET n == Len(s)
      seps == {p \in 2..n : IsSpace(s[p]) /\ IsTerminator(s[p - 1])}
      SepEnd(p) == CHOOSE e \in p..n : /\ \A m \in p..e : IsSpace(s[m])
                                       /\ (e = n \/ ~IsSpace(s[e + 1]))
      k == Cardinality(seps)
  IN List([j \in 1..(k + 1) |->
             SubSeq(s, IF j = 1 THEN 1 ELSE SepEnd(Nth(seps, j - 1)) + 1,
                       IF j = k + 1 THEN n ELSE Nth(seps, j) - 1)])

NonEmpty(s) == s # <<>>

\* _tokenize_sentences
TokenizeSentences(text) == SelectSeq(SplitSentences(Strip(text)), NonEmpty)

\* _tokenize_words without the call of lower
TokenizeWordsAsWritten(sentence) == FindallWords(sentence)

\* _tokenize_words
TokenizeWords(sentence) == FindallWords(Lower(sentence))

\* freq[word] += 1 on a Counter
Increment(freq, word) ==
  IF word \in DOMAIN freq THEN [freq EXCEPT ![word] = @ + 1] ELSE freq @@ (word :> 1)

\* freq.get(word, 0)
FreqGet(freq, word) == IF word \in DOMAIN freq THEN freq[word] ELSE 0

\* lines 347-349: the inner loop, over the words of one sentence from the i-th
RECURSIVE CountWords(_, _, _, _)
CountWords(words, i, stop, freq) ==
  IF i > Len(words) THEN freq
  ELSE CountWords(words, i + 1, stop,
                  IF words[i] \notin stop THEN Increment(freq, words[i]) ELSE freq)

\* lines 345-349: the outer loop, over the sentences from the i-th
RECURSIVE CountSentences(_, _, _, _)
CountSentences(sentences, i, stop, freq) ==
  IF i > Len(sentences) THEN freq
  ELSE CountSentences(sentences, i + 1, stop,
                      CountWords(TokenizeWords(sentences[i]), 1, stop, freq))

WordFrequencies(sentences, stop) == CountSentences(sentences, 1, stop, <<>>)

\* lines 353-356: the score of one sentence, summed over its words from the i-th
RECURSIVE ScoreFrom(_, _, _, _, _)
ScoreFrom(words, i, stop, freq, score) ==
  IF i > Len(words) THEN score
  ELSE ScoreFrom(words, i + 1, stop, freq,
                 IF words[i] \notin stop THEN score + FreqGet(freq, words[i]) ELSE score)

\* lines 351-357: the (score, idx, sentence) tuples, idx counted from 0
ScoredSentences(sentences, stop) ==
  LET freq == WordFrequencies(sentences, stop)
  IN List([i \in 1..Len(sentences) |->
             <<ScoreFrom(TokenizeWords(sentences[i]), 1, stop, freq, 0), i - 1, sentences[i]>>])

\* the order of Python on tuples of integers
TupleLess(a, b) ==
  \E i \in 1..Len(a) : a[i] < b[i] /\ \A j \in 1..(i - 1) : a[j] = b[j]

\* sorted(items, key=Key): ascending by key; the sort is stable, so items of
\* equal keys keep their order
Sorted(items, Key(_)) ==
  LET n == Len(items)
      Before(j, i) == \/ TupleLess(Key(items[j]), Key(items[i]))
                      \/ Key(items[j]) = Key(items[i]) /\ j < i
      Rank(i) == 1 + Cardinality({j \in 1..n : Before(j, i)})
  IN List([r \in 1..n |-> items[CHOOSE i \in 1..n : Rank(i) = r]])

\* the ranking key with the score ascending: (x[0], x[1])
RankingKeyAscending(x) == <<x[1], x[2]>>

\* a key that leaves the ranking order as it is
NoPositionKey(x) == <<0>>

\* line 359: key=lambda x: (-x[0], x[1])
RankingKey(x) == <<-x[1], x[2]>>

\* line 360: key=lambda x: x[1]
PositionKey(x) == <<x[2]>>

\* line 359: the max_sentences first of the ranking
TopSentences(scored, max_sentences) ==
  SubSeq(Sorted(scored, RankingKey), 1, max_sentences)

\* lines 360-362: the selected sentences in their original order, joined
SummaryOf(top) ==
  LET top_sorted == Sorted(top, PositionKey)
  IN Join(<<" ">>, List([i \in 1..Len(top_sorted) |-> top_sorted[i][3]]))

\* the state of a call of summarize that has read its arguments
NewSummary(text, max_sentences) ==
  [pc |-> "call", text |-> text, max_sentences |-> max_sentences,
   top |-> <<>>, result |-> <<>>]

NoSummary == [pc |-> "idle", text |-> <<>>, max_sentences |-> 1, top |-> <<>>, result |-> <<>>]

\* summarize, lines 341-362
Summarize ==
  /\ summ.pc = "call"
  /\ LET sentences == TokenizeSentences(summ.text)
     IN IF Len(sentences) <= summ.max_sentences
        THEN summ' = [summ EXCEPT !.pc = "done", !.result = summ.text]
        ELSE LET top == TopSentences(ScoredSentences(sentences, stopwords), summ.max_sentences)
             IN summ' = [summ EXCEPT !.pc = "done", !.top = top, !.result = SummaryOf(top)]
  /\ UNCHANGED <<corpus, chain, stopwords, gen>>

TextLetters == {"A", "b", "C"}

TextEndings == {<<".", " ">>, <<".">>, <<" ">>}

\* a letter and what ends it: a full stop and a space, a full stop, a space
TextItems == {<<l>> \o e : l \in TextLetters, e \in TextEndings}

\* "A. B. C. D."
ScenarioText == <<"A", ".", " ", "B", ".", " ", "C", ".", " ", "D", ".">>

\* texts whose whitespace is not a space: "A.\fB. C.", "A. B.\fb C. b D.",
\* "A. b.\x1fC. C.", "\vA.\tB.\n\x1cb." and "\rA.\x1d\x1eb C.\f"
WhitespaceTexts ==
  { <<"A", ".", "\f", "B", ".", " ", "C", ".">>,
    <<"A", ".", " ", "B", ".", "\f", "b", " ", "C", ".", " ", "b", " ", "D", ".">>,
    <<"A", ".", " ", "b", ".", "", "C", ".", " ", "C", ".">>,
    <<"", "A", ".", "\t", "B", ".", "\n", "", "b", ".">>,
    <<"\r", "A", ".", "", "", "b", " ", "C", ".", "\f">> }

SummaryTexts ==
  {Join(<<>>, items) : items \in SeqsUpTo(TextItems, MaxItems)}
    \cup {ScenarioText} \cup WhitespaceTexts

---------------------------------------------------------------------------
(* Specifications.                                                         *)

\* the services as constructed at lines 368-369 from the corpus
Constructed(literals) ==
  /\ corpus = literals
  /\ chain = BuildChain(CorpusWords(literals))
  /\ stopwords = DefaultStopwords

\* one call of generate, on a table built from a small corpus
Init ==
  /\ \E literals \in SmallCorpora : Constructed(literals)
  /\ \E p \in PromptInputs, m \in 1..MaxLength : gen = (1 :> NewCall(p, m)) @@ NoCalls
  /\ summ = NoSummary

Next ==
  \/ \E t \in Threads : SeedSelect(t)
  \/ \E t \in Threads : ExtendStep(t)
  \/ \E t \in Threads : Finish(t)

Spec == Init /\ [][Next]_vars

\* "Once upon a"
ScenarioPrompt == <<"O","n","c","e"," ","u","p","o","n"," ","a">>

\* generate("Once upon a", 5) on the table of the built-in corpus
InitBuiltin ==
  /\ Constructed(LoadCorpus)
  /\ gen = (1 :> NewCall(ScenarioPrompt, 5)) @@ NoCalls
  /\ summ = NoSummary

SpecBuiltin == InitBuiltin /\ [][Next]_vars

\* one call of summarize
InitSummarize ==
  /\ Constructed(<< <<"a"," ","a"," ","b">> >>)
  /\ gen = NoCalls
  /\ \E text \in SummaryTexts, k \in 1..MaxSentences : summ = NewSummary(text, k)

NextSummarize == Summarize

SpecSummarize == InitSummarize /\ [][NextSummarize]_vars

\* the prompts of the concurrent calls: "", "b", "b b", "a a"
SharedPrompts == {<<>>, <<"b">>, <<"b", " ", "b">>, <<"a", " ", "a">>}

\* two threads in generate(prompt, 4) and one call of summarize("A. B. C. D.", 2),
\* on a table built from a small corpus; the calls are calls of the two
\* methods themselves, with any prompt, as C8 speaks of them
InitShared ==
  /\ \E literals \in SmallCorpora : Constructed(literals)
  /\ gen \in [Threads -> {NewCall(p, 4) : p \in SharedPrompts}]
  /\ summ = NewSummary(ScenarioText, 2)

\* the steps of the calls in flight, interleaved in any order
NextShared ==
  \/ \E t \in Threads : SeedSelect(t)
  \/ \E t \in Threads : ExtendStep(t)
  \/ \E t \in Threads : Finish(t)
  \/ Summarize

SpecShared == InitShared /\ [][NextShared]_vars

\* prompts for the table of the built-in corpus: "", "say", "to say",
\* "Words to say", "Once upon a"
BuiltinPrompts ==
  { <<>>, <<"s","a","y">>, <<"t","o"," ","s","a","y">>,
    <<"W","o","r","d","s"," ","t","o"," ","s","a","y">>, ScenarioPrompt }

\* one call of generate on the table of the built-in corpus
InitBuiltinCalls ==
  /\ Constructed(LoadCorpus)
  /\ \E p \in BuiltinPrompts, m \in {4, 5} : gen = (1 :> NewCall(p, m)) @@ NoCalls
  /\ summ = NoSummary

\* one call of generate, on a table built from a small corpus or from the
\* built-in one
InitLoop == Init \/ InitBuiltinCalls

SpecLoop == InitLoop /\ [][Next]_vars

---------------------------------------------------------------------------
(* What the claims are stated in.                                          *)

\* s.split(sep) for a one-character sep: the pieces between the separators
SplitOn(s, sep) ==
  LET n == Len(s)
      cuts == {i \in 1..n : s[i] = sep}
      k == Cardinality(cuts)
  IN List([j \in 1..(k + 1) |->
             SubSeq(s, IF j = 1 THEN 1 ELSE Nth(cuts, j - 1) + 1,
                       IF j = k + 1 THEN n ELSE Nth(cuts, j) - 1)])

\* the words of a returned text
ResultWords(t) == SplitOn(gen[t].result, " ")

\* the tokens of the prompt of thread t
PromptWords(t) == FindallWords(Lower(gen[t].prompt))

\* the prompt of thread t has two tokens or more and the last two are a key
SeedKnown(t) ==
  LET pw == PromptWords(t)
  IN Len(pw) >= 2 /\ <<pw[Len(pw) - 1], pw[Len(pw)]>> \in DOMAIN chain

AtLeast(a, b) == IF a >= b THEN a ELSE b

---------------------------------------------------------------------------
(* The claims.                                                             *)

\* C1: with a non-empty table generate never raises, keeps at least two words
\* in generated_words throughout the loop, adds a word or two in every
\* iteration (so the loop ends), and returns at least max(2, max_length)
\* words separated by single spaces.
C1_GenerateTotal ==
  /\ [](\A t \in Threads :
         DOMAIN chain # {} =>
           /\ gen[t].pc # "raised"
           /\ gen[t].pc = "loop" => Len(gen[t].generated_words) >= 2
           /\ gen[t].pc = "done" =>
                /\ Len(ResultWords(t)) >= AtLeast(2, gen[t].max_length)
                /\ \A i \in 1..Len(ResultWords(t)) : ResultWords(t)[i] # <<>>)
  /\ [][\A t \in Threads :
          gen[t].pc = "loop" /\ gen'[t] # gen[t] /\ DOMAIN chain # {} =>
            \/ /\ gen'[t].pc = "loop"
               /\ Len(gen'[t].generated_words) > Len(gen[t].generated_words)
               /\ Len(gen[t].generated_words) < gen[t].max_length
            \/ /\ gen'[t].pc = "done"
               /\ Len(gen[t].generated_words) >= gen[t].max_length]_vars

\* a call with a prompt of no word has returned MaxLength words or more after
\* a dead end
C1_Witness ==
  \E t \in Threads :
    /\ gen[t].pc = "done" /\ PromptWords(t) = <<>> /\ gen[t].prompt # <<>>
    /\ gen[t].max_length = MaxLength /\ gen[t].last = "deadend"

\* C2: when the last two tokens of the prompt are a key of the table, the
\* returned words begin with all the tokens of the prompt, in order, the first
\* one capitalised when the first character of the prompt is upper case.
C2_KnownSeedKeepsPrompt ==
  \A t \in Threads :
    gen[t].pc = "done" /\ SeedKnown(t) =>
      LET pw == PromptWords(t)
          out == ResultWords(t)
      IN /\ Len(out) >= Len(pw)
         /\ \A i \in 2..Len(pw) : out[i] = pw[i]
         /\ out[1] = IF IsUpper(gen[t].prompt[1]) THEN Capitalize(pw[1]) ELSE pw[1]

\* a prompt of three tokens that starts in upper case was kept and extended
C2_Witness ==
  \E t \in Threads :
    /\ gen[t].pc = "done" /\ SeedKnown(t)
    /\ Len(PromptWords(t)) >= 3 /\ IsUpper(gen[t].prompt[1])
    /\ Len(ResultWords(t)) > Len(PromptWords(t))

\* C4: the returned text holds at most max_length words.
C4_AtMostMaxLength ==
  \A t \in Threads :
    gen[t].pc = "done" => Len(ResultWords(t)) <= gen[t].max_length

\* C5: on an empty table generate ends with a "model not trained" error of
\* its own, not with the IndexError of random.choice on an empty list.
C5_EmptyTableError ==
  \A t \in Threads :
    DOMAIN chain = {} /\ gen[t].pc \notin {"idle", "seed"} =>
      gen[t].pc = "raised" /\ gen[t].error = "ModelNotTrained"

\* C10: for max_length >= 2 the returned text exceeds max_length by at most
\* one word, and exceeds it only when the last iteration was a dead-end
\* recovery entered one word short of max_length.
C10_OvershootAtMostOne ==
  \A t \in Threads :
    gen[t].pc = "done" /\ gen[t].max_length >= 2 =>
      LET n == Len(ResultWords(t))
      IN /\ n <= gen[t].max_length + 1
         /\ n > gen[t].max_length => gen[t].last = "deadend" /\ n = gen[t].max_length + 1

\* the words "once", "upon", "a"
OnceUponA == << <<"o","n","c","e">>, <<"u","p","o","n">>, <<"a">> >>

\* the words of a returned text, the first one in lower case
LowerResultWords(t) ==
  LET out == ResultWords(t) IN [out EXCEPT ![1] = Lower(out[1])]

\* C3 as stated: on the table of the built-in corpus generate("Once upon a", 5)
\* returns a text whose first three tokens are "once", "upon", "a".
C3_StartsWithOnceUponA ==
  \A t \in Threads :
    gen[t].pc = "done" /\ gen[t].prompt = ScenarioPrompt =>
      SubSeq(LowerResultWords(t), 1, 3) = OnceUponA

\* C3 amended: on the table of the built-in corpus ("upon", "a") is no key, so
\* generate("Once upon a", 5) drops the prompt: it returns 5 words, the first
\* two a key of the table (the first word capitalised), never "once upon a",
\* and each later word a follower in the table of the two words before it.
C3_OnceUponADropped ==
  /\ <<OnceUponA[2], OnceUponA[3]>> \notin DOMAIN chain
  /\ \A t \in Threads :
       gen[t].pc = "done" /\ gen[t].prompt = ScenarioPrompt /\ gen[t].max_length = 5 =>
         LET out == ResultWords(t)
             low == LowerResultWords(t)
         IN /\ Len(out) = 5
            /\ out[1] = Capitalize(low[1])
            /\ <<low[1], low[2]>> \in DOMAIN chain
            /\ SubSeq(low, 1, 3) # OnceUponA
            /\ \A i \in 3..5 :
                 /\ <<low[i - 2], low[i - 1]>> \in DOMAIN chain
                 /\ low[i] \in Range(chain[<<low[i - 2], low[i - 1]>>])

\* generate("Once upon a", 5) has returned "Alice ..." on the built-in table
C3_Witness ==
  \E t \in Threads :
    /\ gen[t].pc = "done" /\ gen[t].prompt = ScenarioPrompt /\ gen[t].max_length = 5
    /\ ResultWords(t)[1] = <<"A","l","i","c","e">>
    /\ Cardinality(DOMAIN chain) > 500

\* the sentences of the text of the call of summarize
Sentences == TokenizeSentences(summ.text)

\* the sentences at the positions S, in ascending order of position, joined
JoinedAt(S) ==
  LET sentences == Sentences
  IN Join(<<" ">>, List([j \in 1..Cardinality(S) |-> sentences[Nth(S, j)]]))

\* C6: when the text holds more than max_sentences sentences, the summary is
\* max_sentences of them, taken at distinct positions, in ascending order of
\* position, verbatim, joined by single spaces.
C6_SummaryIsOrderedSelection ==
  summ.pc = "done" /\ Len(Sentences) > summ.max_sentences =>
    \E S \in SUBSET (1..Len(Sentences)) :
      Cardinality(S) = summ.max_sentences /\ summ.result = JoinedAt(S)

\* a summary of two sentences or more that are not the first ones, the highest
\* score being that of a later one
C6_Witness ==
  /\ summ.pc = "done" /\ Len(Sentences) > summ.max_sentences
  /\ summ.max_sentences >= 2
  /\ summ.result # JoinedAt(1..summ.max_sentences)
  /\ summ.top[1][2] > summ.top[2][2]

\* "A. B."
FirstTwo == <<"A", ".", " ", "B", ".">>

\* "B. C."
SecondAndThird == <<"B", ".", " ", "C", ".">>

\* C7 as stated: summarize("A. B. C. D.", 2) returns "A. B.".
C7_ScenarioKeepsFirstTwo ==
  summ.pc = "done" /\ summ.text = ScenarioText /\ summ.max_sentences = 2 =>
    summ.result = FirstTwo

\* C7 amended: "a" is a stopword, so "A." scores 0 and the other three
\* sentences score 1 each; the tie-break by position keeps the second and the
\* third sentence: summarize("A. B. C. D.", 2) returns "B. C.".
C7_ScenarioKeepsSecondAndThird ==
  /\ <<"a">> \in stopwords
  /\ summ.pc = "done" /\ summ.text = ScenarioText /\ summ.max_sentences = 2 =>
       /\ summ.result = SecondAndThird
       /\ summ.top = << <<1, 1, <<"B", ".">> >>, <<1, 2, <<"C", ".">> >> >>

\* summarize("A. B. C. D.", 2) has returned
C7_Witness ==
  summ.pc = "done" /\ summ.text = ScenarioText /\ summ.max_sentences = 2

\* the words of every sentence of the text, as _tokenize_words gives them
SentenceWords ==
  LET sentences == Sentences
  IN List([i \in 1..Len(sentences) |-> FindallWords(Lower(sentences[i]))])

\* the occurrences <<i, j>> of words that are no stopwords in the sentences of
\* words sw: word j of sentence i
Occurrences(sw) ==
  {o \in UNION {{<<i, j>> : j \in 1..Len(sw[i])} : i \in 1..Len(sw)} :
     sw[o[1]][o[2]] \notin stopwords}

\* the score of sentence i as C9 states it: for every occurrence in it of a word
\* that is no stopword, the occurrences of that word in all the sentences
ClaimedScore(sw, i) ==
  LET occ == Occurrences(sw)
  IN Cardinality({p \in {o \in occ : o[1] = i} \X occ :
                    sw[p[1][1]][p[1][2]] = sw[p[2][1]][p[2][2]]})

\* the positions (from 1) of the sentences summarize selected
Selected == {summ.top[r][2] + 1 : r \in 1..Len(summ.top)}

\* C9: when the text holds more than max_sentences sentences, every selected
\* sentence ranks before every other one: it has the higher score, or the same
\* score and the earlier position.
C9_SelectionIsTopOfRanking ==
  summ.pc = "done" /\ Len(Sentences) > summ.max_sentences =>
    LET sw == SentenceWords
        score == List([i \in 1..Len(sw) |-> ClaimedScore(sw, i)])
    IN /\ Cardinality(Selected) = summ.max_sentences
       /\ summ.result = JoinedAt(Selected)
       /\ \A r \in 1..Len(summ.top) : summ.top[r][1] = score[summ.top[r][2] + 1]
       /\ \A s \in Selected, u \in (1..Len(sw)) \ Selected :
            \/ score[u] < score[s]
            \/ score[u] = score[s] /\ u > s

\* a sentence was selected over an earlier one of a lower score and over a
\* later one of the same score
C9_Witness ==
  /\ summ.pc = "done" /\ Len(Sentences) > summ.max_sentences
  /\ LET sw == SentenceWords
     IN \E s \in Selected :
          /\ \E u \in (1..Len(sw)) \ Selected :
               u < s /\ ClaimedScore(sw, u) < ClaimedScore(sw, s)
          /\ \E u \in (1..Len(sw)) \ Selected :
               u > s /\ ClaimedScore(sw, u) = ClaimedScore(sw, s)

\* C8: no step of a call of generate or summarize, in any interleaving, changes
\* the table or the stopword set, which stay as constructed (no key is added
\* by the lookup of an unknown bigram), and a step of one call changes the
\* words and the result of that call only.
C8_SharedStateReadOnly ==
  /\ [](chain = BuildChain(CorpusWords(corpus)) /\ stopwords = DefaultStopwords)
  /\ [][/\ chain' = chain
        /\ stopwords' = stopwords
        /\ corpus' = corpus
        /\ \A t \in Threads :
             gen'[t] # gen[t] => summ' = summ /\ \A u \in Threads \ {t} : gen'[u] = gen[u]]_vars

\* both threads are in generate, one has just left a dead end, the other one
\* has returned from a prompt whose last two tokens are no key, and summarize
\* has returned
C8_Witness ==
  /\ gen[1].pc = "loop" /\ gen[1].last = "deadend"
  /\ gen[2].pc = "done" /\ Len(PromptWords(2)) >= 2 /\ ~SeedKnown(2)
  /\ summ.pc = "done"

\* the last two words of the corpus token sequence
FinalBigram ==
  LET words == CorpusWords(corpus)
      n == Len(words)
  IN <<words[n - 1], words[n]>>

\* the bigram occurs in the corpus token sequence before its last two words
OccursEarlier(bigram) ==
  LET words == CorpusWords(corpus)
  IN \E i \in 1..(Len(words) - 2) : <<words[i], words[i + 1]>> = bigram

\* the last two words of the output of call t
LastTwo(t) ==
  LET words == gen[t].generated_words
      n == Len(words)
  IN <<words[n - 1], words[n]>>

\* C11: in every call of generate on a table built by _build_chain, at the
\* start of every iteration of the loop the output holds two words or more and
\* its last two words are a key of the table or the final bigram of the corpus;
\* the dead-end branch is taken only when the final bigram of the corpus occurs
\* nowhere earlier in the corpus; the final bigram of the built-in corpus,
\* ("to", "say"), occurs earlier, and on its table the branch is never taken.
C11_LoopEndsOnKeyOrFinalBigram ==
  \A t \in Threads :
    /\ gen[t].pc = "loop" =>
         /\ Len(gen[t].generated_words) >= 2
         /\ (LastTwo(t) \in DOMAIN chain \/ LastTwo(t) = FinalBigram)
    /\ gen[t].last = "deadend" =>
         FinalBigram \notin DOMAIN chain /\ ~OccursEarlier(FinalBigram)
    /\ corpus = LoadCorpus =>
         /\ gen[t].last # "deadend"
         /\ gen[t].pc = "seed" =>
              /\ FinalBigram = <<<<"t","o">>, <<"s","a","y">>>>
              /\ OccursEarlier(FinalBigram)

\* a call on a small corpus whose final bigram occurs nowhere earlier has
\* followed the table to that bigram and has just taken the dead-end branch
C11_Witness ==
  \E t \in Threads :
    /\ gen[t].pc = "loop" /\ gen[t].last = "deadend"
    /\ Len(gen[t].generated_words) >= 5
    /\ ~OccursEarlier(FinalBigram)
    /\ LET words == gen[t].generated_words
       IN <<words[Len(words) - 3], words[Len(words) - 2]>> = FinalBigram
====
